---- MODULE Spec2Model ----
(***************************************************************************)
(* A model of ahocorapy: the Aho-Corasick keyword tree of                  *)
(* src/src/ahocorapy/keywordtree.py (class KeywordTree) and the alternate  *)
(* implementation of src/src/ahocorapy/reimplement_keywordtree.py (class   *)
(* KdTree).                                                                *)
(*                                                                         *)
(* Representation.  A Python str is a sequence of one-character strings.   *)
(* An optional value is None (the empty tuple) or Some(x) (a one-element   *)
(* tuple).  The State objects live in a heap, a sequence indexed by the    *)
(* object's address (1, 2, ...); a reference to a State is its address,    *)
(* and Python's identity comparison of States is equality of addresses.    *)
(* A Python dict is the sequence of its <<key, value>> items in insertion  *)
(* order, which is the order Python iterates it in.  A method call yields  *)
(* a record [t, err, ret]: the object after the call, the exception raised *)
(* (None when the call returned) and the value returned.  A call that      *)
(* never returns (a loop that does not end) has err = Diverges, and        *)
(* nothing is called after it.                                             *)
(*                                                                         *)
(* search_all is a generator function: the call runs none of its body and  *)
(* returns a generator object; each next() runs the body up to the next    *)
(* yield, the end or an exception.  gen is the generator of the last       *)
(* tree.search_all call, kdgen that of the last kdtree.search_all call.    *)
(* The States a suspended generator refers to stay alive when              *)
(* __setstate__ gives the tree new States: the generator then holds the    *)
(* heap its references point into.                                         *)
(***************************************************************************)
EXTENDS Integers, Sequences, FiniteSets, TLC

VARIABLES tree, kdtree, keywords, result, pickled, gen, kdgen, malformed

vars == <<tree, kdtree, keywords, result, pickled, gen, kdgen, malformed>>

-----------------------------------------------------------------------------
(* Bounds of the exploration.                                              *)

MaxAdds == 2
MaxKeywordLen == 2
MaxTextLen == 3
MaxMalformed == 1

Sigma == {"a", "A"}

-----------------------------------------------------------------------------
(* Python values.                                                          *)

None == <<>>
Some(x) == <<x>>
Val(o) == o[1]

ValueErrorAddFinalized == <<"ValueError: KeywordTree has been finalized. No more keyword additions allowed">>
ValueErrorNotFinalized == <<"ValueError: KeywordTree has not been finalized. No search allowed. Call finalize() first.">>
ValueErrorAlreadyFinalized == <<"ValueError: KeywordTree has already been finalized.">>
AttributeError == <<"AttributeError">>
RuntimeError == <<"RuntimeError: dictionary changed size during iteration">>
IndexError == <<"IndexError">>
TypeError == <<"TypeError">>
StopIteration == <<"StopIteration">>

\* The outcome of a call that does not return.
Diverges == <<"does not return">>

\* dict: key in d, d[key], d[key] = value
HasKey(d, k) == \E i \in 1..Len(d) : d[i][1] = k
Get(d, k) == d[CHOOSE i \in 1..Len(d) : d[i][1] = k][2]
Put(d, k, v) ==
    IF HasKey(d, k)
    THEN [i \in 1..Len(d) |-> IF d[i][1] = k THEN <<k, v>> ELSE d[i]]
    ELSE Append(d, <<k, v>>)

\* str.lower() on the characters the model uses: the ASCII letters are
\* mapped to their lower-case letter, every other character to itself.
UpperLetters == <<"A", "B", "C", "D", "E", "F", "G", "H", "I", "J", "K", "L", "M",
                  "N", "O", "P", "Q", "R", "S", "T", "U", "V", "W", "X", "Y", "Z">>
LowerLetters == <<"a", "b", "c", "d", "e", "f", "g", "h", "i", "j", "k", "l", "m",
                  "n", "o", "p", "q", "r", "s", "t", "u", "v", "w", "x", "y", "z">>
LowerOf ==
    [c \in {UpperLetters[i] : i \in 1..Len(UpperLetters)} |->
        LowerLetters[CHOOSE i \in 1..Len(UpperLetters) : UpperLetters[i] = c]]
LowerChar(c) == IF c \in DOMAIN LowerOf THEN LowerOf[c] ELSE c
Lower(s) == [i \in 1..Len(s) |-> LowerChar(s[i])]

\* An exception is a one-element tuple holding its description, so that "no
\* exception" is None.
Call(t, err, ret) == [t |-> t, err |-> err, ret |-> ret]

-----------------------------------------------------------------------------
(* keywordtree.py: State and KeywordTree.                                  *)

State(identifier, symbol, parent) ==
    [identifier |-> identifier, symbol |-> symbol, transitions |-> <<>>,
     parent |-> parent, success |-> FALSE, matched_keyword |-> None,
     longest_strict_suffix |-> None]

KeywordTree(case_insensitive) ==
    [zero_state |-> 1, heap |-> <<State(0, None, None)>>, counter |-> 1,
     finalized |-> FALSE, case_insensitive |-> case_insensitive]

\* The for loop of add, from the i-th character on: [heap, counter, current].
RECURSIVE AddWalk(_, _, _, _, _)
AddWalk(heap, counter, keyword, i, current_state) ==
    IF i > Len(keyword)
    THEN [heap |-> heap, counter |-> counter, current |-> current_state]
    ELSE LET char == keyword[i]
             trans == heap[current_state].transitions
         IN  IF HasKey(trans, char)
             THEN AddWalk(heap, counter, keyword, i + 1, Get(trans, char))
             ELSE LET next_state == Len(heap) + 1
                      heap1 == Append(heap, State(counter, Some(char), Some(current_state)))
                      heap2 == [heap1 EXCEPT ![current_state].transitions =
                                                 Put(trans, char, next_state)]
                  IN  AddWalk(heap2, counter + 1, keyword, i + 1, next_state)

\* add without the check of the empty keyword.
AddEmptyMarksRoot(t, original_keyword) ==
    IF t.finalized
    THEN Call(t, ValueErrorAddFinalized, None)
    ELSE LET keyword == IF t.case_insensitive THEN Lower(original_keyword)
                        ELSE original_keyword
             w == AddWalk(t.heap, t.counter, keyword, 1, t.zero_state)
         IN  Call([t EXCEPT !.heap = [w.heap EXCEPT
                                        ![w.current].success = TRUE,
                                        ![w.current].matched_keyword = Some(original_keyword)],
                            !.counter = w.counter],
                  None, None)

\* add storing the folded keyword.
AddStoresFolded(t, original_keyword) ==
    IF t.finalized
    THEN Call(t, ValueErrorAddFinalized, None)
    ELSE LET keyword == IF t.case_insensitive THEN Lower(original_keyword)
                        ELSE original_keyword
         IN  IF Len(keyword) <= 0
             THEN Call(t, None, None)
             ELSE LET w == AddWalk(t.heap, t.counter, keyword, 1, t.zero_state)
                  IN  Call([t EXCEPT !.heap = [w.heap EXCEPT
                                        ![w.current].success = TRUE,
                                        ![w.current].matched_keyword = Some(keyword)],
                                     !.counter = w.counter],
                           None, None)

\* add without the check of the finalized flag.
AddUnguarded(t, original_keyword) ==
    LET keyword == IF t.case_insensitive THEN Lower(original_keyword)
                   ELSE original_keyword
    IN  IF Len(keyword) <= 0
        THEN Call(t, None, None)
        ELSE LET w == AddWalk(t.heap, t.counter, keyword, 1, t.zero_state)
             IN  Call([t EXCEPT !.heap = [w.heap EXCEPT
                                   ![w.current].success = TRUE,
                                   ![w.current].matched_keyword = Some(original_keyword)],
                                !.counter = w.counter],
                      None, None)

add(t, original_keyword) ==
    IF t.finalized
    THEN Call(t, ValueErrorAddFinalized, None)
    ELSE LET keyword == IF t.case_insensitive THEN Lower(original_keyword)
                        ELSE original_keyword
         IN  IF Len(keyword) <= 0
             THEN Call(t, None, None)
             ELSE LET w == AddWalk(t.heap, t.counter, keyword, 1, t.zero_state)
                  IN  Call([t EXCEPT !.heap = [w.heap EXCEPT
                                        ![w.current].success = TRUE,
                                        ![w.current].matched_keyword = Some(original_keyword)],
                                     !.counter = w.counter],
                           None, None)

\* The same loop testing for the root before the transitions.
RECURSIVE LssWalkRootFirst(_, _, _, _, _)
LssWalkRootFirst(heap, zero_state, state, traversed, seen) ==
    IF traversed = None
    THEN [err |-> AttributeError, node |-> None]
    ELSE IF Val(traversed) \in seen
    THEN [err |-> Diverges, node |-> None]
    ELSE LET trans == heap[Val(traversed)].transitions
             symbol == heap[state].symbol
         IN  IF Val(traversed) = zero_state
             THEN [err |-> None, node |-> Some(zero_state)]
             ELSE IF /\ symbol # None
                     /\ HasKey(trans, Val(symbol))
                     /\ Get(trans, Val(symbol)) # state
             THEN [err |-> None, node |-> Some(Get(trans, Val(symbol)))]
             ELSE LssWalkRootFirst(heap, zero_state, state,
                                   heap[Val(traversed)].longest_strict_suffix,
                                   seen \cup {Val(traversed)})

\* The while loop of search_lss: the State the walk stops at, or the error of
\* dereferencing None.  seen holds the States traversed so far: the loop
\* changes nothing, so it does not end once it comes to one of them again.
RECURSIVE LssWalk(_, _, _, _, _)
LssWalk(heap, zero_state, state, traversed, seen) ==
    IF traversed = None
    THEN [err |-> AttributeError, node |-> None]
    ELSE IF Val(traversed) \in seen
    THEN [err |-> Diverges, node |-> None]
    ELSE LET trans == heap[Val(traversed)].transitions
             symbol == heap[state].symbol
         IN  IF /\ symbol # None
                /\ HasKey(trans, Val(symbol))
                /\ Get(trans, Val(symbol)) # state
             THEN [err |-> None, node |-> Some(Get(trans, Val(symbol)))]
             ELSE IF Val(traversed) = zero_state
             THEN [err |-> None, node |-> Some(zero_state)]
             ELSE LssWalk(heap, zero_state, state,
                          heap[Val(traversed)].longest_strict_suffix,
                          seen \cup {Val(traversed)})

\* The for loop of search_lss over suffix.transitions.items(), from the i-th
\* item on; n is the size of the dict when the iteration started.
RECURSIVE MergeLoop(_, _, _, _, _, _)
MergeLoop(heap, zero_state, state, suffix, i, n) ==
    IF Len(heap[suffix].transitions) # n
    THEN [heap |-> heap, err |-> RuntimeError]
    ELSE IF i > n
    THEN [heap |-> heap, err |-> None]
    ELSE LET symbol == heap[suffix].transitions[i][1]
             next_state == heap[suffix].transitions[i][2]
         IN  IF ~HasKey(heap[state].transitions, symbol) /\ suffix # zero_state
             THEN MergeLoop([heap EXCEPT ![state].transitions =
                                 Put(heap[state].transitions, symbol, next_state)],
                            zero_state, state, suffix, i + 1, n)
             ELSE MergeLoop(heap, zero_state, state, suffix, i + 1, n)

RECURSIVE search_lss(_, _, _)
search_lss(heap, zero_state, state) ==
    IF heap[state].longest_strict_suffix # None
    THEN [heap |-> heap, err |-> None]
    ELSE IF heap[state].parent = None
    THEN [heap |-> heap, err |-> AttributeError]
    ELSE LET parent == Val(heap[state].parent)
             w == LssWalk(heap, zero_state, state, heap[parent].longest_strict_suffix, {})
         IN  IF w.err # None
             THEN [heap |-> heap, err |-> w.err]
             ELSE LET heap1 == [heap EXCEPT ![state].longest_strict_suffix = w.node]
                      suffix == Val(w.node)
                      r == IF heap1[suffix].longest_strict_suffix = None
                           THEN search_lss(heap1, zero_state, suffix)
                           ELSE [heap |-> heap1, err |-> None]
                  IN  IF r.err # None
                      THEN r
                      ELSE MergeLoop(r.heap, zero_state, state, suffix, 1,
                                     Len(r.heap[suffix].transitions))

\* The for loop of search_lss_for_children over state.transitions.values(),
\* from the i-th value on: [heap, to_process, err].
RECURSIVE ChildrenLoop(_, _, _, _, _, _, _)
ChildrenLoop(heap, zero_state, processed, to_process, state, i, n) ==
    IF Len(heap[state].transitions) # n
    THEN [heap |-> heap, to_process |-> to_process, err |-> RuntimeError]
    ELSE IF i > n
    THEN [heap |-> heap, to_process |-> to_process, err |-> None]
    ELSE LET child == heap[state].transitions[i][2]
         IN  IF heap[child].identifier \notin processed
             THEN LET r == search_lss(heap, zero_state, child)
                  IN  IF r.err # None
                      THEN [heap |-> r.heap, to_process |-> to_process, err |-> r.err]
                      ELSE ChildrenLoop(r.heap, zero_state, processed,
                                        Append(to_process, child), state, i + 1, n)
             ELSE ChildrenLoop(heap, zero_state, processed, to_process, state, i + 1, n)

\* The while loop of search_lss_for_children: [heap, err].
RECURSIVE ProcessLoop(_, _, _, _)
ProcessLoop(heap, zero_state, processed, to_process) ==
    IF to_process = <<>>
    THEN [heap |-> heap, err |-> None]
    ELSE LET state == to_process[Len(to_process)]
             rest == SubSeq(to_process, 1, Len(to_process) - 1)
             processed1 == processed \cup {heap[state].identifier}
             r == ChildrenLoop(heap, zero_state, processed1, rest, state, 1,
                               Len(heap[state].transitions))
         IN  IF r.err # None
             THEN [heap |-> r.heap, err |-> r.err]
             ELSE ProcessLoop(r.heap, zero_state, processed1, r.to_process)

search_lss_for_children(heap, zero_state) ==
    ProcessLoop(heap, zero_state, {}, <<zero_state>>)

finalize(t) ==
    IF t.finalized
    THEN Call(t, ValueErrorAlreadyFinalized, None)
    ELSE LET heap1 == [t.heap EXCEPT ![t.zero_state].longest_strict_suffix =
                                         Some(t.zero_state)]
             r == search_lss_for_children(heap1, t.zero_state)
         IN  IF r.err # None
             THEN Call([t EXCEPT !.heap = r.heap], r.err, None)
             ELSE Call([t EXCEPT !.heap = r.heap, !.finalized = TRUE], None, None)

\* The generator object tree.search_all(text) returns.  pc is where its body
\* stands: "none" (no generator made yet), "created" (not begun), "suspended"
\* (at the yield of line 141) or "done" (ended or raised).  text is the
\* argument and early records that the tree was not finalized at the call.
\* folded, idx, current_state and state are the local variables text, idx,
\* current_state and state of a suspended body.  heap is None while
\* current_state and state are States of the tree, and holds the heap they
\* are States of once __setstate__ has given the tree other States.
NoGenerator ==
    [pc |-> "none", text |-> <<>>, early |-> FALSE, folded |-> <<>>, idx |-> 0,
     current_state |-> 0, state |-> 0, heap |-> None]

NewGenerator(t, text) ==
    [NoGenerator EXCEPT !.pc = "created", !.text = text, !.early = ~t.finalized]

Done(g) ==
    [NoGenerator EXCEPT !.pc = "done", !.text = g.text, !.early = g.early]

\* The tuple of line 141, with the end of the match for its start.
MatchAtEnd(keyword, idx) == <<keyword, idx + 1>>

\* The tuple of line 141: (keyword, idx + 1 - len(keyword)).
Match(keyword, idx) == <<keyword, idx + 1 - Len(keyword)>>

\* The while loop of search_all entered with state: it leaves at the yield
\* ("yield", with the State and the match), at its end ("exit") or by an
\* exception ("raise"), or does not leave ("hang").  zero_state is the root
\* of the tree, 0 when the heap is not that of the tree (no State of it is
\* the root then).  seen holds the States visited since the loop was entered
\* or resumed: the loop changes nothing, so it does not end once it comes to
\* one of them again.
RECURSIVE OutputWalk(_, _, _, _, _)
OutputWalk(heap, zero_state, state, idx, seen) ==
    IF state = None
    THEN [kind |-> "raise", err |-> AttributeError]
    ELSE IF Val(state) = zero_state
    THEN [kind |-> "exit", err |-> None]
    ELSE IF Val(state) \in seen
    THEN [kind |-> "hang", err |-> Diverges]
    ELSE LET s == heap[Val(state)]
         IN  IF s.success
             THEN IF s.matched_keyword = None
                  THEN [kind |-> "raise", err |-> TypeError]
                  ELSE [kind |-> "yield", err |-> None, state |-> Val(state),
                        match |-> Match(Val(s.matched_keyword), idx)]
             ELSE OutputWalk(heap, zero_state, s.longest_strict_suffix, idx,
                             seen \cup {Val(state)})

\* The body leaving the while loop where it should resume it.
ResumeLeaves(heap, zero_state, g) == [kind |-> "exit", err |-> None]

\* The body resumed after the yield: state = state.longest_strict_suffix
\* (line 142), then the while loop again.
Resume(heap, zero_state, g) ==
    OutputWalk(heap, zero_state, heap[g.state].longest_strict_suffix, g.idx, {})

\* The outcome of next(g) for the outcome r of the while loop.
Stepped(g, folded, idx, current_state, r) ==
    CASE r.kind = "yield" ->
            [g |-> [g EXCEPT !.pc = "suspended", !.folded = folded, !.idx = idx,
                             !.current_state = current_state, !.state = r.state],
             err |-> None, ret |-> Some(r.match)]
      [] r.kind = "raise" -> [g |-> Done(g), err |-> r.err, ret |-> None]
      [] r.kind = "hang" -> [g |-> g, err |-> Diverges, ret |-> None]

\* The for loop of search_all from the character of index idx (0-based) on,
\* run to the next yield: [g, err, ret].  folded is the text after folding.
RECURSIVE Scan(_, _, _, _, _)
Scan(t, g, folded, idx, current_state) ==
    IF idx >= Len(folded)
    THEN [g |-> Done(g), err |-> StopIteration, ret |-> None]
    ELSE LET symbol == folded[idx + 1]
             zero == t.heap[t.zero_state].transitions
             trans == t.heap[current_state].transitions
             next == IF HasKey(trans, symbol) THEN Get(trans, symbol)
                     ELSE IF HasKey(zero, symbol) THEN Get(zero, symbol)
                     ELSE t.zero_state
             r == OutputWalk(t.heap, t.zero_state, Some(next), idx, {})
         IN  IF r.kind = "exit"
             THEN Scan(t, g, folded, idx + 1, next)
             ELSE Stepped(g, folded, idx, next, r)

\* next(g) for the generator g of tree.search_all: [g, err, ret], g the
\* generator after the call, ret the tuple yielded.  A generator that has
\* ended or raised raises StopIteration.
gen_next(t, g) ==
    CASE g.pc = "done" -> [g |-> g, err |-> StopIteration, ret |-> None]
      [] g.pc = "created" ->
            IF ~t.finalized
            THEN [g |-> Done(g), err |-> ValueErrorNotFinalized, ret |-> None]
            ELSE Scan(t, g, IF t.case_insensitive THEN Lower(g.text) ELSE g.text,
                      0, t.zero_state)
      [] g.pc = "suspended" ->
            LET heap == IF g.heap = None THEN t.heap ELSE Val(g.heap)
                zero_state == IF g.heap = None THEN t.zero_state ELSE 0
                r == Resume(heap, zero_state, g)
            IN  IF r.kind = "exit"
                THEN Scan(t, g, g.folded, g.idx + 1, g.current_state)
                ELSE Stepped(g, g.folded, g.idx, g.current_state, r)

\* The generator after tree.__setstate__ returned c on the tree t: the States
\* of a suspended generator are those of the heap the tree had.
Kept(g, t, c) ==
    IF c.err = None /\ g.pc = "suspended" /\ g.heap = None
    THEN [g EXCEPT !.heap = Some(t.heap)]
    ELSE g

\* A loop that takes every tuple of the generator g (for result in g, list(g)):
\* ret holds the tuples yielded, in order, before the generator ended or
\* raised.  seen holds the places (idx, state) the loop has resumed the
\* generator at: resumed at one of them again, it does not end.
RECURSIVE Drain(_, _, _, _)
Drain(t, g, acc, seen) ==
    LET r == gen_next(t, g)
    IN  IF r.err = StopIteration THEN Call(t, None, acc)
        ELSE IF r.err # None THEN Call(t, r.err, acc)
        ELSE IF <<r.g.idx, r.g.state>> \in seen THEN Call(t, Diverges, acc)
        ELSE Drain(t, r.g, Append(acc, Val(r.ret)), seen \cup {<<r.g.idx, r.g.state>>})

\* list(tree.search_all(text)), for result in tree.search_all(text): the
\* generator made and run to its end with no call between.
search_all(t, text) == Drain(t, NewGenerator(t, text), <<>>, {})

\* next(result_gen), or None on StopIteration.
search_one(t, text) ==
    LET r == gen_next(t, NewGenerator(t, text))
    IN  IF r.err = StopIteration THEN Call(t, None, None)
        ELSE Call(t, r.err, r.ret)

search(t, text) == search_one(t, text)

\* A Python list of length n indexed by i: i is in range, and the position
\* (1-based) it denotes; a negative index counts from the end.
InRange(n, i) == -n <= i /\ i < n
PyIndex(n, i) == IF i >= 0 THEN i + 1 ELSE n + i + 1

RefId(heap, ref) == IF ref # None THEN Some(heap[Val(ref)].identifier) ELSE None

\* The dict of one State without its suffix link.
SerializedNoSuffix(heap, state) ==
    LET s == heap[state]
    IN  [symbol |-> s.symbol,
         success |-> s.success,
         parent |-> RefId(heap, s.parent),
         matched_keyword |-> s.matched_keyword,
         longest_strict_suffix |-> None,
         transitions |-> [i \in 1..Len(s.transitions) |->
                            <<s.transitions[i][1], heap[s.transitions[i][2]].identifier>>]]

\* The dict __getstate__ stores for one State.
Serialized(heap, state) ==
    LET s == heap[state]
    IN  [symbol |-> s.symbol,
         success |-> s.success,
         parent |-> RefId(heap, s.parent),
         matched_keyword |-> s.matched_keyword,
         longest_strict_suffix |-> RefId(heap, s.longest_strict_suffix),
         transitions |-> [i \in 1..Len(s.transitions) |->
                            <<s.transitions[i][1], heap[s.transitions[i][2]].identifier>>]]

\* The for loop of __getstate__ over state.transitions.values(): the todo_list
\* after it.
RECURSIVE TodoLoop(_, _, _, _, _)
TodoLoop(heap, state_list, todo_list, state, i) ==
    IF i > Len(heap[state].transitions)
    THEN todo_list
    ELSE LET child == heap[state].transitions[i][2]
             id == heap[child].identifier
         IN  IF Len(state_list) <= id \/ state_list[PyIndex(Len(state_list), id)] = None
             THEN TodoLoop(heap, state_list, Append(todo_list, child), state, i + 1)
             ELSE TodoLoop(heap, state_list, todo_list, state, i + 1)

\* The while loop of __getstate__: [ret, err], ret the state_list.
RECURSIVE GetStateLoop(_, _, _)
GetStateLoop(heap, state_list, todo_list) ==
    IF todo_list = <<>>
    THEN [ret |-> state_list, err |-> None]
    ELSE LET state == todo_list[Len(todo_list)]
             rest == SubSeq(todo_list, 1, Len(todo_list) - 1)
             id == heap[state].identifier
         IN  IF ~InRange(Len(state_list), id)
             THEN [ret |-> state_list, err |-> IndexError]
             ELSE LET state_list1 == [state_list EXCEPT ![PyIndex(Len(state_list), id)] =
                                          Some(Serialized(heap, state))]
                  IN  GetStateLoop(heap, state_list1,
                                   TodoLoop(heap, state_list1, rest, state, 1))

getstate(t) ==
    LET r == GetStateLoop(t.heap, [i \in 1..t.counter |-> None], <<t.zero_state>>)
    IN  IF r.err # None
        THEN Call(t, r.err, None)
        ELSE Call(t, None, Some([case_insensitive |-> t.case_insensitive,
                                 finalized |-> t.finalized,
                                 counter |-> t.counter,
                                 states |-> r.ret]))

\* The State __setstate__ builds for the entry of index idx (0-based).
Deserialized(states, idx) ==
    LET n == Len(states)
        e == Val(states[idx + 1])
    IN  [identifier |-> idx, symbol |-> e.symbol, success |-> e.success,
         matched_keyword |-> e.matched_keyword,
         longest_strict_suffix |->
             IF e.longest_strict_suffix # None
             THEN Some(PyIndex(n, Val(e.longest_strict_suffix))) ELSE None,
         parent |-> IF e.parent # None THEN Some(PyIndex(n, Val(e.parent))) ELSE None,
         transitions |-> [i \in 1..Len(e.transitions) |->
                            <<e.transitions[i][1], PyIndex(n, e.transitions[i][2])>>]]

\* Whether every states[...] lookup of __setstate__ for this entry is in range.
EntryInRange(states, e) ==
    LET n == Len(states)
    IN  /\ e.longest_strict_suffix # None => InRange(n, Val(e.longest_strict_suffix))
        /\ e.parent # None => InRange(n, Val(e.parent))
        /\ \A i \in 1..Len(e.transitions) : InRange(n, e.transitions[i][2])

setstate(t, state) ==
    LET t1 == [t EXCEPT !.case_insensitive = state.case_insensitive,
                        !.counter = state.counter,
                        !.finalized = state.finalized]
        states == state.states
    IN  IF \E i \in 1..Len(states) : states[i] = None
        THEN Call(t1, TypeError, None)
        ELSE IF \E i \in 1..Len(states) : ~EntryInRange(states, Val(states[i]))
        THEN Call(t1, IndexError, None)
        ELSE IF Len(states) = 0
        THEN Call(t1, IndexError, None)
        ELSE Call([t1 EXCEPT !.heap = [i \in 1..Len(states) |-> Deserialized(states, i - 1)],
                             !.zero_state = 1],
                  None, None)

-----------------------------------------------------------------------------
(* reimplement_keywordtree.py: State and KdTree.                           *)

KdState(state_id, symbol, parent) ==
    [state_id |-> state_id, symbol |-> symbol, parent |-> parent,
     success |-> FALSE, transitions |-> <<>>, keyword |-> None, failure |-> None]

KdTree(case_sensitive) ==
    [zero_node |-> 1, heap |-> <<KdState(0, None, None)>>,
     case_sensitive |-> case_sensitive, counter |-> 1, finalized |-> FALSE]

KdErrorAddFinalized == <<"ValueError: add_keyword after finalize">>
KdErrorAlreadyFinalized == <<"ValueError: finalize after finalize">>
KdErrorNotFinalized == <<"ValueError: search_all before finalize">>

\* The for loop of add_keyword, from the i-th character on.
RECURSIVE KdAddWalk(_, _, _, _, _)
KdAddWalk(heap, counter, keyword, i, current_node) ==
    IF i > Len(keyword)
    THEN [heap |-> heap, counter |-> counter, current |-> current_node]
    ELSE LET character == keyword[i]
             trans == heap[current_node].transitions
         IN  IF ~HasKey(trans, character)
             THEN LET next_node == Len(heap) + 1
                      heap1 == Append(heap, KdState(counter, Some(character),
                                                    Some(current_node)))
                      heap2 == [heap1 EXCEPT ![current_node].transitions =
                                                 Put(trans, character, next_node)]
                  IN  KdAddWalk(heap2, counter + 1, keyword, i + 1, next_node)
             ELSE KdAddWalk(heap, counter, keyword, i + 1, Get(trans, character))

add_keyword(t, origin_keyword) ==
    IF t.finalized
    THEN Call(t, KdErrorAddFinalized, None)
    ELSE LET keyword == IF ~t.case_sensitive THEN Lower(origin_keyword)
                        ELSE origin_keyword
             w == KdAddWalk(t.heap, t.counter, keyword, 1, t.zero_node)
         IN  Call([t EXCEPT !.heap = [w.heap EXCEPT
                                        ![w.current].success = TRUE,
                                        ![w.current].keyword = Some(origin_keyword)],
                            !.counter = w.counter],
                  None, None)

\* The for loop of find_failure over node.failure.transitions.items(), from
\* the i-th item on.  The loop variable is named node too: the State the
\* body tests and updates is the target of the item.
RECURSIVE FailureMergeLoop(_, _, _, _)
FailureMergeLoop(heap, failure, i, n) ==
    IF Len(heap[failure].transitions) # n
    THEN [heap |-> heap, err |-> RuntimeError]
    ELSE IF i > n
    THEN [heap |-> heap, err |-> None]
    ELSE LET symbol == heap[failure].transitions[i][1]
             node == heap[failure].transitions[i][2]
         IN  IF ~HasKey(heap[node].transitions, symbol)
             THEN FailureMergeLoop([heap EXCEPT ![node].transitions =
                                        Put(heap[node].transitions, symbol, node)],
                                   failure, i + 1, n)
             ELSE FailureMergeLoop(heap, failure, i + 1, n)

\* The while loop of find_failure: [heap, err].  seen holds the States
\* traversed so far: the loop does not end once it comes to one of them again.
RECURSIVE FailureWalk(_, _, _, _, _)
FailureWalk(heap, zero_node, node, traversed_node, seen) ==
    IF traversed_node = None
    THEN [heap |-> heap, err |-> AttributeError]
    ELSE IF Val(traversed_node) \in seen
    THEN [heap |-> heap, err |-> Diverges]
    ELSE LET trans == heap[Val(traversed_node)].transitions
             symbol == heap[node].symbol
         IN  IF /\ symbol # None
                /\ HasKey(trans, Val(symbol))
                /\ node # Get(trans, Val(symbol))
             THEN LET failure == Get(trans, Val(symbol))
                      heap1 == [heap EXCEPT ![node].failure = Some(failure)]
                  IN  FailureMergeLoop(heap1, failure, 1, Len(heap1[failure].transitions))
             ELSE IF Val(traversed_node) = zero_node
             THEN [heap |-> [heap EXCEPT ![node].failure = Some(zero_node)], err |-> None]
             ELSE FailureWalk(heap, zero_node, node, heap[Val(traversed_node)].failure,
                              seen \cup {Val(traversed_node)})

find_failure(heap, zero_node, node) ==
    IF heap[node].failure # None
    THEN [heap |-> heap, err |-> None]
    ELSE IF heap[node].parent = None
    THEN [heap |-> heap, err |-> AttributeError]
    ELSE FailureWalk(heap, zero_node, node, heap[Val(heap[node].parent)].failure, {})

\* The for loop of find_failure_for_children over the children, from the i-th on.
RECURSIVE KdChildrenLoop(_, _, _, _, _, _)
KdChildrenLoop(heap, zero_node, to_add, current_node, i, n) ==
    IF Len(heap[current_node].transitions) # n
    THEN [heap |-> heap, to_add |-> to_add, err |-> RuntimeError]
    ELSE IF i > n
    THEN [heap |-> heap, to_add |-> to_add, err |-> None]
    ELSE LET child == heap[current_node].transitions[i][2]
             r == find_failure(heap, zero_node, child)
         IN  IF r.err # None
             THEN [heap |-> r.heap, to_add |-> to_add, err |-> r.err]
             ELSE KdChildrenLoop(r.heap, zero_node, Append(to_add, child),
                                 current_node, i + 1, n)

\* The while loop of find_failure_for_children: [heap, err].
RECURSIVE KdProcessLoop(_, _, _, _)
KdProcessLoop(heap, zero_node, to_add_failure_nodes, processed_node_id) ==
    IF to_add_failure_nodes = <<>>
    THEN [heap |-> heap, err |-> None]
    ELSE LET current_node == to_add_failure_nodes[Len(to_add_failure_nodes)]
             rest == SubSeq(to_add_failure_nodes, 1, Len(to_add_failure_nodes) - 1)
         IN  IF heap[current_node].state_id \notin processed_node_id
             THEN LET r == KdChildrenLoop(heap, zero_node, rest, current_node, 1,
                                          Len(heap[current_node].transitions))
                  IN  IF r.err # None
                      THEN [heap |-> r.heap, err |-> r.err]
                      ELSE KdProcessLoop(r.heap, zero_node, r.to_add,
                               processed_node_id \cup {heap[current_node].state_id})
             ELSE KdProcessLoop(heap, zero_node, rest, processed_node_id)

find_failure_for_children(heap, zero_node) ==
    KdProcessLoop(heap, zero_node, <<zero_node>>, {})

kd_finalize(t) ==
    IF t.finalized
    THEN Call(t, KdErrorAlreadyFinalized, None)
    ELSE LET heap1 == [t.heap EXCEPT ![t.zero_node].failure = Some(t.zero_node)]
             r == find_failure_for_children(heap1, t.zero_node)
         IN  IF r.err # None
             THEN Call([t EXCEPT !.heap = r.heap], r.err, None)
             ELSE Call([t EXCEPT !.heap = r.heap, !.finalized = TRUE], None, None)

\* The generator object kdtree.search_all(text) returns: pc, text and early
\* as for KeywordTree; folded, idx and current_node are the local variables
\* text, idx and current_node of a body suspended at the yield of line 121.
NoKdGenerator ==
    [pc |-> "none", text |-> <<>>, early |-> FALSE, folded |-> <<>>, idx |-> 0,
     current_node |-> 0]

NewKdGenerator(t, text) ==
    [NoKdGenerator EXCEPT !.pc = "created", !.text = text, !.early = ~t.finalized]

KdDone(g) ==
    [NoKdGenerator EXCEPT !.pc = "done", !.text = g.text, !.early = g.early]

\* The for loop of KdTree.search_all from the character of index idx on, run
\* to the next yield: [g, err, ret].
RECURSIVE KdScan(_, _, _, _, _)
KdScan(t, g, folded, idx, current_node) ==
    IF idx >= Len(folded)
    THEN [g |-> KdDone(g), err |-> StopIteration, ret |-> None]
    ELSE LET symbol == folded[idx + 1]
             trans == t.heap[current_node].transitions
         IN  IF HasKey(trans, symbol)
             THEN LET target == t.heap[Get(trans, symbol)]
                  IN  IF target.success
                      THEN IF target.keyword = None
                           THEN [g |-> KdDone(g), err |-> TypeError, ret |-> None]
                           ELSE [g |-> [g EXCEPT !.pc = "suspended", !.folded = folded,
                                                 !.idx = idx, !.current_node = current_node],
                                 err |-> None,
                                 ret |-> Some(<<Val(target.keyword),
                                                idx + 1 - Len(Val(target.keyword))>>)]
                      ELSE KdScan(t, g, folded, idx + 1, Get(trans, symbol))
             ELSE KdScan(t, g, folded, idx + 1, current_node)

\* next(g) for the generator g of kdtree.search_all: [g, err, ret].
kd_gen_next(t, g) ==
    CASE g.pc = "done" -> [g |-> g, err |-> StopIteration, ret |-> None]
      [] g.pc = "created" ->
            IF ~t.finalized
            THEN [g |-> KdDone(g), err |-> KdErrorNotFinalized, ret |-> None]
            ELSE KdScan(t, g, IF ~t.case_sensitive THEN Lower(g.text) ELSE g.text,
                        0, t.zero_node)
      [] g.pc = "suspended" -> KdScan(t, g, g.folded, g.idx + 1, g.current_node)

-----------------------------------------------------------------------------
(* The inputs the exploration draws.                                       *)

\* The strings over Sigma of length at most n.
RECURSIVE StringsUpTo(_)
StringsUpTo(n) ==
    IF n = 0 THEN {<<>>}
    ELSE LET shorter == StringsUpTo(n - 1)
         IN  shorter \cup {Append(s, c) : s \in {x \in shorter : Len(x) = n - 1}, c \in Sigma}

Keywords == StringsUpTo(MaxKeywordLen)
Texts == StringsUpTo(MaxTextLen)

\* The lists of at most n keywords.
RECURSIVE KeywordListsUpTo(_)
KeywordListsUpTo(n) ==
    IF n = 0 THEN {<<>>}
    ELSE LET shorter == KeywordListsUpTo(n - 1)
         IN  shorter \cup {Append(l, k) : l \in {x \in shorter : Len(x) = n - 1}, k \in Keywords}

\* The scenarios the documentation of the behaviour names, and one in which
\* search_lss has to resolve the suffix of a State before the State itself.
Str_he == <<"h", "e">>
Str_she == <<"s", "h", "e">>
Str_his == <<"h", "i", "s">>
Str_hers == <<"h", "e", "r", "s">>
Str_ushers == <<"u", "s", "h", "e", "r", "s">>
Str_Abc == <<"A", "b", "c">>
Str_xxABCxx == <<"x", "x", "A", "B", "C", "x", "x">>
Str_ab == <<"a", "b">>
Str_bab == <<"b", "a", "b">>
Str_abab == <<"a", "b", "a", "b">>

ScenarioLists == {<<Str_he, Str_she, Str_his, Str_hers>>, <<Str_Abc>>, <<Str_ab, Str_bab>>}
ScenarioTexts == {Str_ushers, Str_xxABCxx, Str_abab}

KeywordLists == KeywordListsUpTo(MaxAdds) \cup ScenarioLists
SearchTexts == Texts \cup ScenarioTexts

\* The arguments the calls of Spec draw.
LifeKeywords == {<<>>, <<"a">>, <<"A", "a">>}
LifeTexts == {<<>>, <<"a", "A", "a">>}

\* The arguments the calls of SpecCorrupt draw.
CorruptKeywords == {<<"a">>, <<"a", "a">>}
CorruptTexts == {<<"a", "a">>}

-----------------------------------------------------------------------------
(* The life of one KeywordTree object: Spec.                               *)

Outcome(op, arg, c) == [op |-> op, arg |-> arg, err |-> c.err, ret |-> c.ret]

\* The last call returned or raised: the program goes on.
Running == result.err # Diverges

Init ==
    /\ \E case_insensitive \in BOOLEAN : tree = KeywordTree(case_insensitive)
    /\ kdtree = KdTree(TRUE)
    /\ keywords = <<>>
    /\ result = [op |-> "__init__", arg |-> None, err |-> None, ret |-> None]
    /\ pickled = None
    /\ gen = NoGenerator
    /\ kdgen = NoKdGenerator
    /\ malformed = 0

\* tree.add(keyword).  keywords logs the calls that returned.
Add(keyword) ==
    /\ Running
    /\ tree.finalized \/ Len(keywords) < MaxAdds
    /\ LET c == add(tree, keyword)
       IN  /\ tree' = c.t
           /\ result' = Outcome("add", keyword, c)
           /\ keywords' = IF c.err = None THEN Append(keywords, keyword) ELSE keywords
    /\ UNCHANGED <<kdtree, pickled, gen, kdgen, malformed>>

\* tree.finalize()
Finalize ==
    /\ Running
    /\ LET c == finalize(tree)
       IN  /\ tree' = c.t
           /\ result' = Outcome("finalize", None, c)
    /\ UNCHANGED <<kdtree, keywords, pickled, gen, kdgen, malformed>>

\* g = tree.search_all(text): the call returns the generator and runs none of
\* the body of search_all.
SearchAllCall(text) ==
    /\ Running
    /\ gen' = NewGenerator(tree, text)
    /\ result' = [op |-> "search_all", arg |-> text, err |-> None, ret |-> None]
    /\ UNCHANGED <<tree, kdtree, keywords, pickled, kdgen, malformed>>

\* next(g)
NextGen ==
    /\ Running
    /\ gen.pc # "none"
    /\ LET r == gen_next(tree, gen)
       IN  /\ gen' = r.g
           /\ result' = [op |-> "next", arg |-> gen.text, err |-> r.err, ret |-> r.ret]
    /\ UNCHANGED <<tree, kdtree, keywords, pickled, kdgen, malformed>>

\* tree.search_one(text)
SearchOne(text) ==
    /\ Running
    /\ LET c == search_one(tree, text)
       IN  /\ tree' = c.t
           /\ result' = Outcome("search_one", text, c)
    /\ UNCHANGED <<kdtree, keywords, pickled, gen, kdgen, malformed>>

\* tree.search(text)
Search(text) ==
    /\ Running
    /\ LET c == search(tree, text)
       IN  /\ tree' = c.t
           /\ result' = Outcome("search", text, c)
    /\ UNCHANGED <<kdtree, keywords, pickled, gen, kdgen, malformed>>

\* pickled = tree.__getstate__()
GetState ==
    /\ Running
    /\ LET c == getstate(tree)
       IN  /\ tree' = c.t
           /\ result' = Outcome("__getstate__", None, c)
           /\ pickled' = IF c.err = None THEN c.ret ELSE pickled
    /\ UNCHANGED <<kdtree, keywords, gen, kdgen, malformed>>

\* tree.__setstate__(state)
SetStateOf(state) ==
    /\ Running
    /\ LET c == setstate(tree, state)
       IN  /\ tree' = c.t
           /\ gen' = Kept(gen, tree, c)
           /\ result' = Outcome("__setstate__", Some(state), c)
    /\ UNCHANGED <<kdtree, keywords, pickled, kdgen>>

\* tree.__setstate__(pickled)
SetState ==
    /\ pickled # None
    /\ SetStateOf(Val(pickled))
    /\ UNCHANGED malformed

\* One call on the tree or on its generator, the arguments drawn from
\* kws and texts.
Calls(kws, texts) ==
    \/ \E keyword \in kws : Add(keyword)
    \/ Finalize
    \/ \E text \in texts : SearchAllCall(text)
    \/ NextGen
    \/ \E text \in texts : SearchOne(text)
    \/ \E text \in texts : Search(text)
    \/ GetState
    \/ SetState

Next == Calls(LifeKeywords, LifeTexts)

Spec == Init /\ [][Next]_vars

-----------------------------------------------------------------------------
(* Import of a malformed record: SpecCorrupt.                              *)

\* An id that is no index (0 .. n-1) of a states array of length n.
DanglingIds(n) == {n, -1, -(n + 1)}

\* The records got from record p by one corruption: the states array emptied
\* (no root entry), or one parent, failure or transition id made dangling.
Corruptions(p) ==
    LET n == Len(p.states)
        entry(i) == Val(p.states[i])
        with(i, e) == [p EXCEPT !.states[i] = Some(e)]
    IN  {[p EXCEPT !.states = <<>>]}
        \cup {with(i, [entry(i) EXCEPT !.parent = Some(bad)]) :
                 i \in 1..n, bad \in DanglingIds(n)}
        \cup {with(i, [entry(i) EXCEPT !.longest_strict_suffix = Some(bad)]) :
                 i \in 1..n, bad \in DanglingIds(n)}
        \cup UNION {{with(i, [entry(i) EXCEPT !.transitions[j] = <<entry(i).transitions[j][1], bad>>]) :
                        j \in 1..Len(entry(i).transitions), bad \in DanglingIds(n)} :
                    i \in 1..n}

IsIndex(n, id) == 0 <= id /\ id < n

\* The record references an id that is no index of its states array, or its
\* states array has no root entry.
Malformed(p) ==
    LET n == Len(p.states)
    IN  \/ n = 0
        \/ \E i \in 1..n :
              LET e == Val(p.states[i])
              IN  \/ e.parent # None /\ ~IsIndex(n, Val(e.parent))
                  \/ e.longest_strict_suffix # None /\ ~IsIndex(n, Val(e.longest_strict_suffix))
                  \/ \E j \in 1..Len(e.transitions) : ~IsIndex(n, e.transitions[j][2])

\* tree.__setstate__(state) for a corruption of pickled.  malformed counts
\* these calls.
SetStateMalformed ==
    /\ pickled # None
    /\ malformed < MaxMalformed
    /\ \E state \in Corruptions(Val(pickled)) : SetStateOf(state)
    /\ malformed' = malformed + 1

NextCorrupt ==
    \/ Calls(CorruptKeywords, CorruptTexts)
    \/ SetStateMalformed

SpecCorrupt == Init /\ [][NextCorrupt]_vars

-----------------------------------------------------------------------------
(* The matcher as a function of the keywords and the text: SpecSearch.     *)

\* The for loop of __main__: tree.add(i) for the keywords from the i-th on.
RECURSIVE AddAll(_, _, _)
AddAll(t, kws, i) ==
    IF i > Len(kws) THEN Call(t, None, None)
    ELSE LET c == add(t, kws[i])
         IN  IF c.err # None THEN c ELSE AddAll(c.t, kws, i + 1)

\* __main__: the keywords added in order, then finalize().
BuildTree(t, kws) ==
    LET c == AddAll(t, kws, 1)
    IN  IF c.err # None THEN c ELSE finalize(c.t)

InitSearch ==
    /\ \E case_insensitive \in BOOLEAN : tree = KeywordTree(case_insensitive)
    /\ kdtree = KdTree(TRUE)
    /\ keywords \in KeywordLists
    /\ result = [op |-> "__init__", arg |-> None, err |-> None, ret |-> None]
    /\ pickled = None
    /\ gen = NoGenerator
    /\ kdgen = NoKdGenerator
    /\ malformed = 0

Build ==
    /\ LET c == BuildTree(tree, keywords)
       IN  /\ tree' = c.t
           /\ result' = Outcome("build", None, c)
    /\ UNCHANGED <<kdtree, keywords, pickled, gen, kdgen, malformed>>

\* __main__: results = tree.search_all(text); for result in results: ...
\* The loop takes every tuple of the generator and nothing is called on the
\* tree meanwhile.
SearchAll(text) ==
    /\ Running
    /\ LET c == search_all(tree, text)
       IN  /\ tree' = c.t
           /\ result' = Outcome("list(search_all)", text, c)
    /\ UNCHANGED <<kdtree, keywords, pickled, gen, kdgen, malformed>>

\* Each behaviour builds the tree and searches one text.
NextSearch ==
    \/ result.op = "__init__" /\ Build
    \/ result.op = "build" /\ \E text \in SearchTexts : SearchAll(text)

SpecSearch == InitSearch /\ [][NextSearch]_vars

-----------------------------------------------------------------------------
(* The tree exported and imported, then searched: SpecRoundTrip.           *)

\* Each behaviour builds the tree, exports it, imports the record and
\* searches one text.
NextRoundTrip ==
    \/ result.op = "__init__" /\ Build
    \/ result.op = "build" /\ GetState
    \/ result.op = "__getstate__" /\ SetState
    \/ result.op = "__setstate__" /\ \E text \in SearchTexts : SearchAll(text)

SpecRoundTrip == InitSearch /\ [][NextRoundTrip]_vars

-----------------------------------------------------------------------------
(* KdTree against KeywordTree on the same keywords: SpecKd.                *)

RECURSIVE KdAddAll(_, _, _)
KdAddAll(t, kws, i) ==
    IF i > Len(kws) THEN Call(t, None, None)
    ELSE LET c == add_keyword(t, kws[i])
         IN  IF c.err # None THEN c ELSE KdAddAll(c.t, kws, i + 1)

InitKd ==
    /\ tree = KeywordTree(FALSE)
    /\ kdtree = KdTree(TRUE)
    /\ keywords \in KeywordLists
    /\ result = [op |-> "__init__", arg |-> None, err |-> None, ret |-> None]
    /\ pickled = None
    /\ gen = NoGenerator
    /\ kdgen = NoKdGenerator
    /\ malformed = 0

\* __main__: for i in [...]: kdtree.add_keyword(i)
KdAddKeywords ==
    /\ LET c == KdAddAll(kdtree, keywords, 1)
       IN  /\ kdtree' = c.t
           /\ result' = Outcome("kd_add_keywords", None, c)
    /\ UNCHANGED <<tree, keywords, pickled, gen, kdgen, malformed>>

\* kdtree.finalize()
KdFinalize ==
    /\ Running
    /\ LET c == kd_finalize(kdtree)
       IN  /\ kdtree' = c.t
           /\ result' = Outcome("kd_finalize", None, c)
    /\ UNCHANGED <<tree, keywords, pickled, gen, kdgen, malformed>>

\* g = kdtree.search_all(text): the call returns the generator and runs none
\* of the body of search_all.
KdSearchAllCall(text) ==
    /\ Running
    /\ kdgen' = NewKdGenerator(kdtree, text)
    /\ result' = [op |-> "kd_search_all", arg |-> text, err |-> None, ret |-> None]
    /\ UNCHANGED <<tree, kdtree, keywords, pickled, gen, malformed>>

\* next(g)
KdNextGen ==
    /\ Running
    /\ kdgen.pc # "none"
    /\ LET r == kd_gen_next(kdtree, kdgen)
       IN  /\ kdgen' = r.g
           /\ result' = [op |-> "kd_next", arg |-> kdgen.text, err |-> r.err, ret |-> r.ret]
    /\ UNCHANGED <<tree, kdtree, keywords, pickled, gen, malformed>>

\* The KeywordTree is built, the keywords are added to the KdTree, and then
\* finalize, search_all and next are called on the KdTree in any order.
NextKd ==
    \/ result.op = "__init__" /\ Build
    \/ result.op = "build" /\ KdAddKeywords
    \/ result.op \notin {"__init__", "build"} /\ KdFinalize
    \/ result.op \notin {"__init__", "build"} /\ \E text \in SearchTexts : KdSearchAllCall(text)
    \/ KdNextGen

SpecKd == InitKd /\ [][NextKd]_vars

-----------------------------------------------------------------------------
(* Vocabulary of the properties.                                           *)

SetOf(seq) == {seq[i] : i \in 1..Len(seq)}

\* k occurs in text at offset s (0-based): text[s : s+len(k)] = k.
Occurs(k, text, s) ==
    /\ s >= 0
    /\ s + Len(k) <= Len(text)
    /\ SubSeq(text, s + 1, s + Len(k)) = k

NoRepeat(seq) == \A i, j \in 1..Len(seq) : i # j => seq[i] # seq[j]

EndOf(match) == match[2] + Len(match[1])

\* The tree built from the drawn keywords and not exported since.
Built == tree.finalized /\ pickled = None

\* The path of a State: the symbols on the parent links from the root to it.
RECURSIVE PathOf(_, _)
PathOf(heap, n) ==
    IF heap[n].parent = None THEN <<>>
    ELSE Append(PathOf(heap, Val(heap[n].parent)), Val(heap[n].symbol))

IsSuffix(p, q) == Len(p) <= Len(q) /\ SubSeq(q, Len(q) - Len(p) + 1, Len(q)) = p

\* The last keyword added whose folded form is that of k.
LastFoldedLike(kws, k) ==
    kws[CHOOSE i \in 1..Len(kws) :
            /\ Lower(kws[i]) = Lower(k)
            /\ \A j \in (i + 1)..Len(kws) : Lower(kws[j]) # Lower(k)]

-----------------------------------------------------------------------------
(* C1.  Substring completeness, case-sensitive.                            *)

\* C1 as stated: search_all yields exactly the pairs (k, s) with k an
\* inserted keyword and text[s : s+len(k)] = k, each once.  The empty
\* keyword occurs at every offset and is never yielded.
C1_AsStated ==
    (result.op = "list(search_all)" /\ Built /\ ~tree.case_insensitive) =>
        /\ result.err = None
        /\ NoRepeat(result.ret)
        /\ SetOf(result.ret) =
              {m \in SetOf(keywords) \X (0..Len(result.arg)) :
                   Occurs(m[1], result.arg, m[2])}

\* C1 amended: for a tree built from the keywords K with case_insensitive
\* False and finalized, search_all(T) yields exactly the pairs (k, s) with k
\* a non-empty keyword of K and T[s : s+len(k)] = k, each exactly once.
C1_SubstringCompleteness ==
    (result.op = "list(search_all)" /\ Built /\ ~tree.case_insensitive) =>
        /\ result.err = None
        /\ NoRepeat(result.ret)
        /\ SetOf(result.ret) =
              {m \in (SetOf(keywords) \ {<<>>}) \X (0..Len(result.arg)) :
                   Occurs(m[1], result.arg, m[2])}

\* A search that yielded two keywords ending at the same position (nested)
\* and two matches that overlap without ending together.
C1_Witness ==
    /\ result.op = "list(search_all)" /\ Built /\ ~tree.case_insensitive
    /\ \E i, j \in 1..Len(result.ret) :
          /\ i # j
          /\ EndOf(result.ret[i]) = EndOf(result.ret[j])
    /\ \E i, j \in 1..Len(result.ret) :
          /\ result.ret[i][2] < result.ret[j][2]
          /\ result.ret[j][2] < EndOf(result.ret[i])
          /\ EndOf(result.ret[i]) < EndOf(result.ret[j])

-----------------------------------------------------------------------------
(* C2.  Order of the matches.                                              *)

\* C2: the matches search_all yields are non-decreasing in end position
\* (offset + length of the keyword), and of two matches with the same end
\* position the longer keyword is yielded first; he, she, his, hers on
\* "ushers" yield (she, 1), (he, 2), (hers, 2) in that order.
C2_OrderInvariant ==
    (result.op = "list(search_all)" /\ Built) =>
        /\ \A i, j \in 1..Len(result.ret) :
              i < j =>
                 /\ EndOf(result.ret[i]) <= EndOf(result.ret[j])
                 /\ EndOf(result.ret[i]) = EndOf(result.ret[j])
                       => Len(result.ret[i][1]) > Len(result.ret[j][1])
        /\ (/\ keywords = <<Str_he, Str_she, Str_his, Str_hers>>
            /\ result.arg = Str_ushers)
              => result.ret = <<<<Str_she, 1>>, <<Str_he, 2>>, <<Str_hers, 2>>>>

C2_Witness ==
    /\ result.op = "list(search_all)" /\ Built /\ ~tree.case_insensitive
    /\ keywords = <<Str_he, Str_she, Str_his, Str_hers>>
    /\ result.arg = Str_ushers
    /\ result.ret = <<<<Str_she, 1>>, <<Str_he, 2>>, <<Str_hers, 2>>>>

-----------------------------------------------------------------------------
(* C7.  Case folding.                                                      *)

\* C7 as stated: with case_insensitive True, every position s at which the
\* folded text holds the folded form of an inserted keyword k is reported as
\* the match (k, s), k as originally supplied.
C7_AsStated ==
    (result.op = "list(search_all)" /\ Built /\ tree.case_insensitive) =>
        \A k \in SetOf(keywords) : \A s \in 0..Len(result.arg) :
            Occurs(Lower(k), Lower(result.arg), s) => <<k, s>> \in SetOf(result.ret)

\* C7 amended: with case_insensitive True, for every non-empty inserted
\* keyword k, every position s with fold(T)[s : s+len(k)] = fold(k) is
\* reported as a match at offset s whose keyword is the string, as originally
\* supplied, of the keyword added last among those with the folded form of k
\* (k itself when no later keyword folds to the same string); every keyword
\* reported is a string as it was supplied ('Abc' searched in 'xxABCxx'
\* yields ('Abc', 2)).
C7_CaseFolding ==
    (result.op = "list(search_all)" /\ Built /\ tree.case_insensitive) =>
        /\ result.err = None
        /\ LET folded == Lower(result.arg)
               yielded == SetOf(result.ret)
           IN  \A k \in SetOf(keywords) \ {<<>>} :
                  LET fk == Lower(k)
                  IN  \A s \in 0..Len(result.arg) :
                         Occurs(fk, folded, s)
                            => <<LastFoldedLike(keywords, k), s>> \in yielded
        /\ \A m \in SetOf(result.ret) : m[1] \in SetOf(keywords)
        /\ (keywords = <<Str_Abc>> /\ result.arg = Str_xxABCxx)
              => result.ret = <<<<Str_Abc, 2>>>>

C7_Witness ==
    /\ result.op = "list(search_all)" /\ Built /\ tree.case_insensitive
    /\ keywords = <<Str_Abc>>
    /\ result.arg = Str_xxABCxx
    /\ result.ret = <<<<Str_Abc, 2>>>>

-----------------------------------------------------------------------------
(* C9.  The failure links finalize computes.                               *)

\* C9: finalize returns, and then the failure link of the root is the root
\* and the failure link of every other State n is the State whose path is
\* the longest proper suffix of the path of n that is a path of the trie
\* (the root when only the empty suffix is); so it is never n itself and its
\* depth is less than that of n.
C9_FailureLinks ==
    (result.op = "build") =>
        /\ result.err = None
        /\ tree.finalized
        /\ LET heap == tree.heap
               nodes == 1..Len(heap)
               path == [n \in nodes |-> PathOf(heap, n)]
           IN  \A n \in nodes :
                  /\ heap[n].longest_strict_suffix # None
                  /\ LET f == Val(heap[n].longest_strict_suffix)
                     IN  IF n = tree.zero_state
                         THEN f = tree.zero_state
                         ELSE /\ f # n
                              /\ Len(path[f]) < Len(path[n])
                              /\ IsSuffix(path[f], path[n])
                              /\ \A m \in nodes :
                                    (Len(path[m]) < Len(path[n]) /\ IsSuffix(path[m], path[n]))
                                       => Len(path[m]) <= Len(path[f])

\* A finalized tree in which a State of depth 3 has a failure link of depth
\* 2 that was resolved from within search_lss.
C9_Witness ==
    /\ result.op = "build" /\ tree.finalized
    /\ keywords = <<Str_ab, Str_bab>>
    /\ \E n \in 1..Len(tree.heap) :
          /\ PathOf(tree.heap, n) = Str_bab
          /\ PathOf(tree.heap, Val(tree.heap[n].longest_strict_suffix)) = Str_ab

-----------------------------------------------------------------------------
(* C5.  Export, then import.                                               *)

\* C5: the record exported by a finalized tree A has one entry for every id
\* in [0, counter), entry 0 the root; the tree B imported from it has the
\* case_insensitive, finalized and counter values of A, and search_all on B
\* yields for every text the matches search_all on A yields, in the same
\* order.
C5_RoundTrip ==
    LET A == BuildTree(KeywordTree(tree.case_insensitive), keywords).t
    IN  /\ (result.op = "__getstate__") =>
              /\ result.err = None
              /\ pickled = result.ret
              /\ pickled # None
              /\ Len(Val(pickled).states) = tree.counter
              /\ \A i \in 1..Len(Val(pickled).states) : Val(pickled).states[i] # None
              /\ Val(Val(pickled).states[1]).parent = None
              /\ Val(Val(pickled).states[1]).symbol = None
        /\ (result.op = "__setstate__") =>
              /\ result.err = None
              /\ tree.finalized = A.finalized
              /\ tree.counter = A.counter
              /\ tree.case_insensitive = A.case_insensitive
        /\ (result.op = "list(search_all)" /\ pickled # None) =>
              LET onA == search_all(A, result.arg)
              IN  /\ result.err = onA.err
                  /\ result.ret = onA.ret

\* A search on an imported tree that yielded several matches.
C5_Witness ==
    /\ result.op = "list(search_all)" /\ pickled # None /\ tree.finalized
    /\ Len(result.ret) >= 3
    /\ \E n \in 1..Len(tree.heap) :
          tree.heap[n].longest_strict_suffix \notin {None, Some(tree.zero_state)}

-----------------------------------------------------------------------------
(* C3.  No search before finalize.                                         *)

\* C3: on a tree that is not finalized (fresh, or after any add calls),
\* search_one and search raise the not-finalized error and return no match,
\* and a search_all called on it fails with the not-finalized error and
\* yields no match.
C3_NoSearchBeforeFinalize ==
    /\ (~tree.finalized /\ result.op \in {"search_one", "search"}) =>
          /\ result.err = ValueErrorNotFinalized
          /\ result.ret = None
    /\ (result.op = "next" /\ gen.early) =>
          /\ result.err \in {ValueErrorNotFinalized, StopIteration}
          /\ result.ret = None

-----------------------------------------------------------------------------
(* C4.  No insert and no finalize after finalize.                          *)

\* C4: on a finalized tree every add(keyword), the empty keyword included,
\* and every finalize() raises the already-finalized error and leaves the
\* object as it was (States, transitions, failure links, match flags,
\* matched keywords, counter and finalized flag).
C4_NoInsertAfterFinalize ==
    [][(tree.finalized /\ result'.op \in {"add", "finalize"}) =>
          /\ tree' = tree
          /\ result'.err = IF result'.op = "add" THEN ValueErrorAddFinalized
                           ELSE ValueErrorAlreadyFinalized]_vars

C4_Witness ==
    /\ tree.finalized
    /\ tree.counter > 1
    /\ result.op = "add"
    /\ result.arg = <<>>
    /\ result.err = ValueErrorAddFinalized

-----------------------------------------------------------------------------
(* C8.  The empty keyword.                                                 *)

\* C8: add of the empty keyword to a tree that is not finalized returns and
\* changes nothing (no State, the counter, the flag and keyword of the root
\* and the transitions as before), and no search ever yields a match for the
\* empty keyword, on the empty text included.
C8_EmptyKeyword ==
    /\ [][(~tree.finalized /\ result'.op = "add" /\ result'.arg = <<>>) =>
             /\ tree' = tree
             /\ result'.err = None]_vars
    /\ []((result.op \in {"next", "search_one", "search"} /\ result.ret # None) =>
              Val(result.ret)[1] # <<>>)

\* The empty keyword was added, the tree finalized and the empty text
\* searched to its end.
C8_Witness ==
    /\ tree.finalized
    /\ <<>> \in SetOf(keywords)
    /\ pickled = None
    /\ result.op = "next"
    /\ result.arg = <<>>
    /\ ~gen.early
    /\ result.err = StopIteration

-----------------------------------------------------------------------------
(* C6.  Import of a malformed record.                                      *)

CorruptSnapshotError == <<"CorruptSnapshotError">>

\* C6: the import of a record that references an id that is no index of its
\* states array, or whose states array has no root entry, raises the
\* corrupt-snapshot error and changes no field of the object.
C6_CorruptSnapshotRejected ==
    [][(result'.op = "__setstate__" /\ Malformed(Val(result'.arg))) =>
          /\ result'.err = CorruptSnapshotError
          /\ tree' = tree]_vars

-----------------------------------------------------------------------------
(* C10.  KdTree against KeywordTree.                                       *)

\* C10: with both trees built from the same keywords and finalized, every
\* (keyword, offset) pair KdTree.search_all yields is yielded by
\* KeywordTree.search_all on the same text.
C10_KdTreeOnlyUnderReports ==
    (result.op = "kd_next" /\ result.ret # None /\ kdtree.finalized /\ tree.finalized) =>
        Val(result.ret) \in SetOf(search_all(tree, result.arg).ret)

====
